---- MODULE Spec2Model ----
(***************************************************************************)
(* AccountOperationImpl.sumAccounts with its two collaborators, the        *)
(* AccountStore (getAccountById) and the Logger (logAccount).              *)
(*                                                                         *)
(* One invocation is a sequence of calls into the collaborators, and       *)
(* `trace` records the calls in the order in which the collaborators saw   *)
(* them. A call of the logger is one step; a call of the store is two, the *)
(* call and its answer, so that the retry loop of getAccountWithRetry is a *)
(* cycle of steps the invocation can go round any number of times.         *)
(*                                                                         *)
(* The loop has no counter, so a store that keeps answering NetworkError   *)
(* takes the invocation round the cycle for ever. `trace` holds the first  *)
(* MaxRetries consecutive NetworkError answers of a fetch and `retries`    *)
(* counts them up to "more than MaxRetries"; answers beyond that are       *)
(* given and caught like the others and leave both as they are.            *)
(*                                                                         *)
(* The class is modelled in its latest revision: getAccountWithRetry, the  *)
(* injected Logger and the master account.                                 *)
(***************************************************************************)
EXTENDS Integers, Sequences, FiniteSets, TLC

\* ------------------------------------------------------------------ bounds
\* longest caller-supplied list that is enumerated exhaustively
MaxLen == 2
\* most consecutive NetworkError failures of one fetch that the trace records;
\* the store may go on failing beyond it
MaxRetries == 2
\* invocations of sumAccounts on one AccountOperationImpl
MaxCalls == 2

\* ------------------------------------------------------------- input sets
\* the account id out of which lists of every length up to MaxLen are
\* enumerated: the same id any number of times
ListIds == {"a"}
\* a caller that passes 'master' itself
MasterIds == <<"master", "a">>
\* the list most tests pass: sumAccounts(['a', 'b', 'c'])
TestIds == <<"a", "b", "c">>
\* the list of the logging tests: sumAccounts(['a', 'b'])
LoggingTestIds == <<"a", "b">>
\* the account ids of the test suites
Ids == {"master", "a", "b", "c"}
\* balances an Account can carry (number; the tests use -1, 0 and 1)
Balances == {-1, 0, 1}
\* messages of the errors a store throws in the test suites
StoreErrors == {"NetworkError", "OtherError", "not found", "NetworkError: timeout"}
\* messages of the errors a logger throws
LoggerErrors == {"NetworkError", "OtherError"}

SeqsUpTo(S, n) == UNION {[1..k -> S] : k \in 0..n}

\* the arguments sumAccounts is called with
AccountIdLists == SeqsUpTo(ListIds, MaxLen) \cup {TestIds, LoggingTestIds, MasterIds}

\* ------------------------------------------------------------------ state
VARIABLES
    pc,          \* where the invocation stands
    accountIds,  \* the argument of sumAccounts
    pos,         \* position of the for-of iterator in ['master', ...accountIds]
    account,     \* the loop's `account`
    sum,         \* the local `sum`
    outcome,     \* how the invocation ended: a returned number or a thrown error
    trace,       \* calls received by the store and the logger, in order
    retries,     \* failures of the fetch in progress; MaxRetries + 1 stands for more
    calling,     \* a call of getAccountById is in flight, the store has not answered
    calls,       \* invocations made so far
    previous     \* how the invocation before this one ended

vars == <<pc, accountIds, pos, account, sum, outcome, trace, retries, calling, calls,
          previous>>

NoAccount == [id |-> "none", balance |-> 0]
NoOutcome == [kind |-> "none"]
Returned(n) == [kind |-> "return", value |-> n]
Thrown(by, msg) == [kind |-> "throw", by |-> by, message |-> msg]

\* ------------------------------------------------------- AccountOperationImpl
\* a variant that appends the master account instead: [ ...accountIds, 'master' ]
EffectiveIdsMasterLast(ids) == ids \o <<"master">>

RECURSIVE WithoutRepeats(_, _)
WithoutRepeats(seq, seen) ==
    IF seq = <<>> THEN <<>>
    ELSE IF Head(seq) \in seen THEN WithoutRepeats(Tail(seq), seen)
    ELSE <<Head(seq)>> \o WithoutRepeats(Tail(seq), seen \cup {Head(seq)})

\* a variant that iterates over each id once: [ ...new Set(['master', ...accountIds]) ]
EffectiveIdsDistinct(ids) == WithoutRepeats(<<"master">> \o ids, {})

\* the iterated array: [ 'master', ...accountIds ]
EffectiveIds(ids) == <<"master">> \o ids

\* a variant whose catch block rethrows every error: no message test
RethrowsAll(message) == TRUE

\* a variant that takes every message starting with 'NetworkError' for a
\* network failure
RethrowsUnlessPrefixed(message) == message \notin {"NetworkError", "NetworkError: timeout"}

\* a variant whose catch block rethrows nothing
RethrowsNothing(message) == FALSE

\* the catch block of getAccountWithRetry: err.message !== 'NetworkError' rethrows
Rethrows(message) == message # "NetworkError"

\* a variant without the while(true): a caught NetworkError falls out of the
\* try statement and getAccountWithRetry returns without an account
AfterCatchNoLoop(message) == IF Rethrows(message) THEN "thrown" ELSE "logAccount"

\* a variant that goes round the loop whatever was caught
AfterCatchAlwaysRetry(message) == "getAccountById"

\* where control goes when getAccountById throws: out of sumAccounts, or
\* round the while(true) loop to the same call
AfterCatch(message) == IF Rethrows(message) THEN "thrown" ELSE "getAccountById"

\* a variant that gives up: the loop is left, and the caught error thrown, once
\* the same fetch has failed twice
LoopsAgainTwice(failures) == failures < 2

\* while(true): the loop goes round again whatever the number of failures
LoopsAgain(failures) == TRUE

\* a variant with the two statements switched, logging before the fetch
StatementOrderLogFirst == <<"logAccount", "getAccountById">>

\* the collaborator calls of the loop body, in statement order:
\* getAccountWithRetry(id), then this._logger.logAccount(id, 'master')
StatementOrder == <<"getAccountById", "logAccount">>

\* the arguments of this._logger.logAccount(id, 'master')
LogArgs(id) == <<id, "master">>

\* a variant that adds every balance: sum += account.balance
AccumulateAll(s, balance) == s + balance

\* a variant that tests the balance for truthiness: if (account.balance)
AccumulateTruthy(s, balance) == IF balance # 0 THEN s + balance ELSE s

\* if (account.balance > 0) { sum += account.balance; }
Accumulate(s, balance) == IF balance > 0 THEN s + balance ELSE s

\* the id under the iterator
CurrentId == EffectiveIds(accountIds)[pos]

\* a variant that keeps the sum across invocations, as a field would
InitialSumKept(s) == s

\* let sum = 0
InitialSum(s) == 0

\* a variant with the logAccount call inside the try block of the retry loop
AfterLoggerThrowsCaught(message) == AfterCatch(message)

\* where control goes when logAccount throws: the call is in no try block
AfterLoggerThrows(message) == "thrown"

\* a variant that calls another method of the Logger interface
LogEventUser(args, res) == [op |-> "logUser", args |-> args, res |-> res, account |-> NoAccount]

GetEvent(id, res, acc) == [op |-> "getAccountById", args |-> <<id>>, res |-> res, account |-> acc]
LogEvent(args, res) == [op |-> "logAccount", args |-> args, res |-> res, account |-> NoAccount]

Init ==
    /\ pc = "idle"
    /\ accountIds = <<>>
    /\ pos = 1
    /\ account = NoAccount
    /\ sum = 0
    /\ outcome = NoOutcome
    /\ trace = <<>>
    /\ retries = 0
    /\ calling = FALSE
    /\ calls = 0
    /\ previous = "none"

\* sumAccounts(ids) is entered: let sum = 0, the iterator at 'master'
SumAccounts(ids) ==
    /\ pc \in {"idle", "returned", "thrown"}
    /\ calls < MaxCalls
    /\ calls' = calls + 1
    /\ accountIds' = ids
    /\ pos' = 1
    /\ account' = NoAccount
    /\ sum' = InitialSum(sum)
    /\ outcome' = NoOutcome
    /\ trace' = <<>>
    /\ retries' = 0
    /\ calling' = FALSE
    /\ pc' = StatementOrder[1]
    /\ previous' = outcome.kind

\* the rest of the loop body after its second collaborator call: the balance
\* of acc is accumulated, then the iterator advances or sumAccounts returns sum
EndOfBody(acc) ==
    /\ sum' = Accumulate(sum, acc.balance)
    /\ IF pos < Len(EffectiveIds(accountIds))
         THEN /\ pos' = pos + 1
              /\ pc' = StatementOrder[1]
              /\ outcome' = outcome
         ELSE /\ pos' = pos
              /\ pc' = "returned"
              /\ outcome' = Returned(sum')

\* control after the collaborator call `statement` has returned
Continue(statement, acc) ==
    IF statement = StatementOrder[1]
      THEN /\ pc' = StatementOrder[2]
           /\ UNCHANGED <<pos, sum, outcome>>
      ELSE EndOfBody(acc)

\* return this._store.getAccountById(id): the call is made
CallGetAccountById ==
    /\ pc = "getAccountById"
    /\ ~calling
    /\ calling' = TRUE
    /\ UNCHANGED <<pc, accountIds, pos, account, sum, outcome, trace, retries, calls,
                   previous>>

\* this._store.getAccountById(id) returns an account
GetAccountByIdReturns(balance) ==
    /\ pc = "getAccountById"
    /\ calling
    /\ calling' = FALSE
    /\ account' = [id |-> CurrentId, balance |-> balance]
    /\ trace' = Append(trace, GetEvent(CurrentId, "return", account'))
    /\ retries' = 0
    /\ Continue("getAccountById", account')
    /\ UNCHANGED <<accountIds, calls, previous>>

\* this._store.getAccountById(id) throws; the catch block decides, and the
\* loop takes control back to the call. Of a run of NetworkError answers to
\* one fetch the trace keeps the first MaxRetries.
GetAccountByIdThrows(message) ==
    /\ pc = "getAccountById"
    /\ calling
    /\ calling' = FALSE
    /\ trace' = IF message = "NetworkError" /\ retries >= MaxRetries
                  THEN trace
                  ELSE Append(trace, GetEvent(CurrentId, message, NoAccount))
    /\ pc' = IF AfterCatch(message) = "getAccountById" /\ ~LoopsAgain(retries + 1)
               THEN "thrown"
               ELSE AfterCatch(message)
    /\ retries' = IF pc' # "getAccountById" THEN 0
                    ELSE IF retries < MaxRetries THEN retries + 1
                    ELSE MaxRetries + 1
    /\ outcome' = IF pc' = "thrown" THEN Thrown("getAccountById", message) ELSE outcome
    /\ UNCHANGED <<accountIds, pos, account, sum, calls, previous>>

\* this._logger.logAccount(id, 'master') returns
LogAccountReturns ==
    /\ pc = "logAccount"
    /\ trace' = Append(trace, LogEvent(LogArgs(CurrentId), "return"))
    /\ Continue("logAccount", account)
    /\ UNCHANGED <<accountIds, account, retries, calling, calls, previous>>

\* this._logger.logAccount(id, 'master') throws: nothing catches it
LogAccountThrows(message) ==
    /\ pc = "logAccount"
    /\ trace' = Append(trace, LogEvent(LogArgs(CurrentId), message))
    /\ pc' = AfterLoggerThrows(message)
    /\ outcome' = IF pc' = "thrown" THEN Thrown("logAccount", message) ELSE outcome
    /\ UNCHANGED <<accountIds, pos, account, sum, retries, calling, calls, previous>>

Next ==
    \/ \E ids \in AccountIdLists : SumAccounts(ids)
    \/ CallGetAccountById
    \/ \E b \in Balances : GetAccountByIdReturns(b)
    \/ \E m \in StoreErrors : GetAccountByIdThrows(m)
    \/ LogAccountReturns
    \/ \E m \in LoggerErrors : LogAccountThrows(m)

Spec == Init /\ [][Next]_vars

\* the steps of an invocation in progress: the code is synchronous, so control
\* reaches the next call and a call into a collaborator returns or throws
Step ==
    \/ CallGetAccountById
    \/ \E b \in Balances : GetAccountByIdReturns(b)
    \/ \E m \in StoreErrors : GetAccountByIdThrows(m)
    \/ LogAccountReturns
    \/ \E m \in LoggerErrors : LogAccountThrows(m)

\* one invocation, run to its end
LiveNext ==
    \/ \E ids \in AccountIdLists : calls = 0 /\ SumAccounts(ids)
    \/ Step

LiveSpec == Init /\ [][LiveNext]_vars /\ WF_vars(Step)

TypeOK ==
    /\ pc \in {"idle", "getAccountById", "logAccount", "returned", "thrown"}
    /\ accountIds \in AccountIdLists
    /\ pos \in 1..Len(EffectiveIds(accountIds))
    /\ sum \in Int
    /\ retries \in 0..(MaxRetries + 1)
    /\ calling \in BOOLEAN
    /\ calling => pc = "getAccountById"
    /\ calls \in 0..MaxCalls
    /\ previous \in {"none", "return", "throw"}

\* ------------------------------------------------------ reading the trace
IsGet(e) == e.op = "getAccountById"
IsLog(e) == e.op = "logAccount"
IsSuccess(e) == e.res = "return"
IsNetworkError(e) == IsGet(e) /\ e.res = "NetworkError"
IsPermanent(e) == IsGet(e) /\ ~IsSuccess(e) /\ ~IsNetworkError(e)

\* the store calls, the ones that returned an account, and the logger calls
Gets == SelectSeq(trace, IsGet)
IsFetched(e) == IsGet(e) /\ IsSuccess(e)
Fetched == SelectSeq(trace, IsFetched)
Logs == SelectSeq(trace, IsLog)

Map(f(_), seq) == [k \in 1..Len(seq) |-> f(seq[k])]
BalanceOf(e) == e.account.balance
RequestedId(e) == e.args[1]
FetchedBalances == Map(BalanceOf, Fetched)

RECURSIVE SumOver(_, _)
\* sum of f over a sequence of balances
SumOver(f(_), seq) == IF seq = <<>> THEN 0 ELSE f(Head(seq)) + SumOver(f, Tail(seq))

\* what an account contributes by the contract: its balance if > 0
Positive(b) == IF b > 0 THEN b ELSE 0
NoFailure == \A k \in 1..Len(trace) : IsSuccess(trace[k])

\* ------------------------------------------------------------------ claims
\* C1: when every fetch succeeds, sumAccounts(accountIds) returns the sum of
\* the balances > 0 of the accounts fetched for 'master' followed by
\* accountIds; master=0, a=b=c=1 gives sumAccounts(['a','b','c']) = 3.
C1_ReturnsSumOfPositiveBalances ==
    (pc = "returned" /\ NoFailure) =>
        /\ Map(RequestedId, Fetched) = <<"master">> \o accountIds
        /\ outcome = Returned(SumOver(Positive, FetchedBalances))
        /\ (accountIds = TestIds /\ FetchedBalances = <<0, 1, 1, 1>>) => outcome.value = 3

C1_Witness ==
    /\ pc = "returned" /\ NoFailure
    /\ accountIds = TestIds
    /\ FetchedBalances = <<0, 1, 1, 1>>
    /\ outcome = Returned(3)

\* C2: an account whose balance is negative or zero, master or requested,
\* never changes the running sum, and the returned value is the one obtained
\* with that balance replaced by 0; b=-1 gives sumAccounts(['a','b','c']) = 2.
AsIfZero(b) == IF b <= 0 THEN 0 ELSE b
Plain(b) == b
C2_NonPositiveBalanceLeavesSum ==
    [][ /\ (pc = "logAccount" /\ account.balance <= 0 /\ pc' # "thrown") => sum' = sum
        /\ pc' = "returned" =>
              outcome'.value = SumOver(Plain, Map(AsIfZero, Map(BalanceOf, SelectSeq(trace', IsFetched))))
      ]_vars

C2_Witness ==
    /\ pc = "returned"
    /\ accountIds = TestIds
    /\ FetchedBalances = <<0, 1, -1, 1>>
    /\ outcome = Returned(2)

\* C3: in every invocation, whatever accountIds (the empty list included), the
\* first store call fetches 'master', the master account is logged, and a
\* positive master balance is part of the result (master=1, a=b=c=1 gives 4).
C3_MasterAlwaysFirst ==
    /\ Len(trace) >= 1 => (IsGet(trace[1]) /\ trace[1].args = <<"master">>)
    /\ Len(Logs) >= 1 => (\A k \in 1..Len(Logs[1].args) : Logs[1].args[k] = "master")
    /\ pc = "returned" =>
          /\ Len(Fetched) >= 1 /\ RequestedId(Fetched[1]) = "master" /\ Len(Logs) >= 1
          /\ outcome.value = Positive(BalanceOf(Fetched[1]))
                               + SumOver(Positive, Tail(FetchedBalances))
          /\ (accountIds = TestIds /\ FetchedBalances = <<1, 1, 1, 1>>) => outcome.value = 4

C3_Witness ==
    /\ pc = "returned"
    /\ accountIds = <<>>
    /\ FetchedBalances = <<1>>
    /\ Len(Logs) = 1
    /\ outcome = Returned(1)

\* C4: when exactly one fetch fails with 'NetworkError' and the retry of the
\* same id succeeds, sumAccounts returns what the run without the failure
\* returns, and the balance counted for that id is the retry's.
NetworkErrors == SelectSeq(trace, IsNetworkError)
FailureAt == CHOOSE k \in 1..Len(trace) : IsNetworkError(trace[k])
\* the calls the collaborators see in the run without the failure
WithoutFailure == SubSeq(trace, 1, FailureAt - 1) \o SubSeq(trace, FailureAt + 1, Len(trace))
C4_OneNetworkErrorSameSum ==
    (pc = "returned" /\ Len(NetworkErrors) = 1) =>
        /\ FailureAt < Len(trace)
        /\ IsFetched(trace[FailureAt + 1])
        /\ trace[FailureAt + 1].args = trace[FailureAt].args
        /\ Map(RequestedId, SelectSeq(WithoutFailure, IsGet)) = <<"master">> \o accountIds
        /\ outcome.value = SumOver(Positive, Map(BalanceOf, SelectSeq(WithoutFailure, IsGet)))

C4_Witness ==
    /\ pc = "returned"
    /\ accountIds = TestIds
    /\ Len(NetworkErrors) = 1
    /\ NetworkErrors[1].args = <<"b">>
    /\ FetchedBalances = <<0, 1, 1, 1>>
    /\ outcome = Returned(3)

\* C5: once the fetch of any id has failed with an error other than
\* 'NetworkError', sumAccounts ends with an error and returns no number,
\* whatever sum it had accumulated.
HasPermanentFailure == \E k \in 1..Len(trace) : IsPermanent(trace[k])
C5_PermanentFailureNoSum ==
    HasPermanentFailure =>
        /\ pc = "thrown"
        /\ outcome.kind = "throw"
        /\ "value" \notin DOMAIN outcome

C5_Witness ==
    /\ HasPermanentFailure
    /\ pc = "thrown"
    /\ sum > 0
    /\ outcome.kind = "throw"

\* C6: the error with which sumAccounts fails after a permanent fetch failure
\* is FetchFailed(id), message 'failed to fetch <id>', for the first id in
\* processing order whose fetch failed permanently.
FetchFailedMessage(id) ==
    CASE id = "master" -> "failed to fetch master"
      [] id = "a" -> "failed to fetch a"
      [] id = "b" -> "failed to fetch b"
      [] id = "c" -> "failed to fetch c"
FirstPermanentFailure == SelectSeq(trace, IsPermanent)[1]
C6_ErrorIsFetchFailedOfId ==
    (pc = "thrown" /\ HasPermanentFailure) =>
        outcome.message = FetchFailedMessage(RequestedId(FirstPermanentFailure))

\* C7: after a permanent fetch failure at some position of 'master' followed
\* by accountIds, the logger has been called for the positions before it, in
\* order, and for nothing else: not for the failing position, not for a later
\* one, and not after the failure.
Names(e, id) == {e.args[j] : j \in DOMAIN e.args} = {id, "master"}
C7_NothingLoggedFromFailureOn ==
    (pc = "thrown" /\ HasPermanentFailure) =>
        LET failing == Len(Fetched) + 1
            ids == <<"master">> \o accountIds
        IN  /\ IsPermanent(trace[Len(trace)])
            /\ failing <= Len(ids)
            /\ RequestedId(trace[Len(trace)]) = ids[failing]
            /\ Len(Logs) = failing - 1
            /\ \A k \in 1..Len(Logs) : Names(Logs[k], ids[k])

C7_Witness ==
    /\ pc = "thrown"
    /\ accountIds = LoggingTestIds
    /\ IsPermanent(trace[Len(trace)])
    /\ RequestedId(trace[Len(trace)]) = "b"
    /\ Len(Logs) = 2

\* C8: logAccount is called exactly once per successfully fetched position,
\* however many NetworkError failures preceded the success; an invocation
\* that returns a sum for n ids has made n+1 calls (3 for ['a','b']).
C8_LoggedOncePerFetched ==
    /\ Len(Logs) = Len(Fetched) - (IF pc = "logAccount" THEN 1 ELSE 0)
    /\ \A k \in 1..Len(Logs) : Names(Logs[k], RequestedId(Fetched[k]))
    /\ pc = "returned" => Len(Logs) = Len(accountIds) + 1

C8_Witness ==
    /\ pc = "returned"
    /\ accountIds = LoggingTestIds
    /\ Len(NetworkErrors) >= 2
    /\ Len(Logs) = 3

\* C9: every logAccount call passes the master id first and the accessed
\* account id second: ('master','master'), ('master','a'), ('master','b'), ...
C9_LogArgsMasterThenId ==
    \A k \in 1..Len(Logs) :
        k <= Len(Fetched) => Logs[k].args = <<"master", RequestedId(Fetched[k])>>

\* C10: each logAccount call comes right after the successful fetch of the
\* position it is made for and before any fetch of the next position; it is
\* never made before or between the fetch attempts of the id it names.
LogsUpTo(k) == Len(SelectSeq(SubSeq(trace, 1, k), IsLog))
C10_LogRightAfterItsFetch ==
    \A k \in 1..Len(trace) :
        IsLog(trace[k]) =>
            LET ids == <<"master">> \o accountIds
                position == LogsUpTo(k)
            IN  /\ k > 1
                /\ IsFetched(trace[k - 1])
                /\ RequestedId(trace[k - 1]) = ids[position]
                /\ Names(trace[k], ids[position])
                /\ k < Len(trace) =>
                      (IsGet(trace[k + 1]) /\ RequestedId(trace[k + 1]) = ids[position + 1])

C10_Witness ==
    \E k \in 1..Len(trace) :
        /\ k + 3 <= Len(trace)
        /\ IsNetworkError(trace[k]) /\ RequestedId(trace[k]) = "a"
        /\ IsFetched(trace[k + 1])
        /\ IsLog(trace[k + 2])
        /\ IsGet(trace[k + 3]) /\ RequestedId(trace[k + 3]) = "b"

\* C11: the ids are processed in the order 'master', then accountIds as given,
\* one id to completion before the next: every store call is made for the
\* position after the ones already fetched and logged, so the successful
\* fetches and the logged ids are both a prefix of 'master' followed by
\* accountIds.
FetchedUpTo(k) == Len(SelectSeq(SubSeq(trace, 1, k), IsFetched))
C11_ProcessedInOrder ==
    LET ids == <<"master">> \o accountIds
    IN  /\ Len(Fetched) <= Len(ids)
        /\ Map(RequestedId, Fetched) = SubSeq(ids, 1, Len(Fetched))
        /\ Len(Logs) <= Len(Fetched)
        /\ \A k \in 1..Len(Logs) : Names(Logs[k], ids[k])
        /\ \A k \in 1..Len(trace) :
              IsGet(trace[k]) =>
                  /\ LogsUpTo(k - 1) = FetchedUpTo(k - 1)
                  /\ FetchedUpTo(k - 1) < Len(ids)
                  /\ RequestedId(trace[k]) = ids[FetchedUpTo(k - 1) + 1]

C11_Witness ==
    /\ pc = "returned"
    /\ accountIds = TestIds
    /\ Len(NetworkErrors) >= 1
    /\ Map(RequestedId, Fetched) = <<"master", "a", "b", "c">>
    /\ Len(Logs) = 4

\* C12: a NetworkError of a fetch never escapes sumAccounts. After any number
\* of consecutive NetworkError answers to a fetch, the recorded ones and those
\* beyond MaxRetries alike, the invocation is still at that fetch of that id
\* with nothing returned or thrown, all the answers so far were to that id,
\* and the call is made again; and no invocation ends with an error that a
\* fetch raised as NetworkError.
Recorded(n) == IF n < MaxRetries THEN n ELSE MaxRetries
C12_NetworkErrorNeverEscapes ==
    /\ (pc = "thrown" /\ outcome.by = "getAccountById") => outcome.message # "NetworkError"
    /\ \A k \in 1..Len(trace) :
          IsNetworkError(trace[k]) =>
              IF k = Len(trace)
                THEN pc = "getAccountById" /\ outcome = NoOutcome
                     /\ (<<"master">> \o accountIds)[pos] = RequestedId(trace[k])
                ELSE IsGet(trace[k + 1]) /\ trace[k + 1].args = trace[k].args
    /\ retries > 0 =>
          /\ pc = "getAccountById" /\ outcome = NoOutcome
          /\ Len(trace) >= Recorded(retries)
          /\ \A j \in (Len(trace) - Recorded(retries) + 1)..Len(trace) :
                /\ IsNetworkError(trace[j])
                /\ RequestedId(trace[j]) = (<<"master">> \o accountIds)[pos]
          /\ calling \/ ENABLED CallGetAccountById

\* the fetch of 'a' has failed more than MaxRetries times in a row and is in
\* flight once more
C12_Witness ==
    /\ retries = MaxRetries + 1
    /\ calling
    /\ (<<"master">> \o accountIds)[pos] = "a"
    /\ Len(NetworkErrors) >= MaxRetries

\* C13: duplicate ids are not removed: an id that occurs k times in
\* 'master' followed by accountIds (so 'master' passed by the caller too) is
\* fetched, logged and accumulated once per occurrence.
Occurrences(id, seq) == Cardinality({k \in 1..Len(seq) : seq[k] = id})
C13_OncePerOccurrence ==
    pc = "returned" =>
        LET ids == <<"master">> \o accountIds
        IN  /\ \A id \in Ids :
                  /\ Occurrences(id, Map(RequestedId, Fetched)) = Occurrences(id, ids)
                  /\ Cardinality({k \in 1..Len(Logs) : Names(Logs[k], id)}) = Occurrences(id, ids)
            /\ Len(FetchedBalances) = Len(accountIds) + 1
            /\ outcome.value = SumOver(Positive, FetchedBalances)

C13_Witness ==
    /\ pc = "returned"
    /\ accountIds \in {MasterIds, <<"a", "a">>}
    /\ \A k \in 1..Len(FetchedBalances) : FetchedBalances[k] = 1
    /\ outcome.value = Len(accountIds) + 1

\* C14: a permanent fetch failure is not retried and stops the processing:
\* the store call that raised it is the last call sumAccounts makes, so no
\* later id is fetched.
C14_PermanentFailureIsLastCall ==
    \A k \in 1..Len(trace) :
        IsPermanent(trace[k]) =>
            /\ k = Len(trace)
            /\ Len(SelectSeq(trace, IsPermanent)) = 1
            /\ pc = "thrown"

C14_Witness ==
    /\ pc = "thrown"
    /\ accountIds = TestIds
    /\ pos = 2
    /\ IsPermanent(trace[Len(trace)])
    /\ Len(Gets) = 2

\* C15: a fetch failure is transient exactly when its message is
\* 'NetworkError'; any other message ('OtherError', 'not found', a longer
\* message that starts with 'NetworkError') is permanent and propagates, with
\* that message, the first time it occurs.
C15_TransientIffNetworkError ==
    \A k \in 1..Len(trace) :
        (IsGet(trace[k]) /\ ~IsSuccess(trace[k])) =>
            IF trace[k].res = "NetworkError"
              THEN (k = Len(trace) => pc = "getAccountById")
                   /\ (k < Len(trace) => IsGet(trace[k + 1]))
              ELSE /\ k = Len(trace)
                   /\ pc = "thrown"
                   /\ outcome = Thrown("getAccountById", trace[k].res)

C15_Witness ==
    /\ pc = "thrown"
    /\ outcome.message = "NetworkError: timeout"
    /\ Len(NetworkErrors) >= 1

\* C16: an invocation ends, with a sum or with an error, in every run in which
\* the store answers NetworkError only finitely often. In a run in which it
\* answers NetworkError again and again without end, the invocation never
\* ends: from some point on it stays in the retry loop of one fetch with
\* nothing returned or thrown, and the call is made again and again. Each
\* NetworkError answer leaves the invocation at the same fetch, its sum and
\* account untouched.
InProgress == pc \in {"getAccountById", "logAccount"}
Ended == pc \in {"returned", "thrown"}
AnswersNetworkError == GetAccountByIdThrows("NetworkError")
FinitelyManyNetworkErrors == <>[][~AnswersNetworkError]_vars
NetworkErrorsForever == []<><<AnswersNetworkError>>_vars
C16_EndsUnlessFailingForever ==
    /\ FinitelyManyNetworkErrors => (InProgress ~> Ended)
    /\ NetworkErrorsForever =>
          /\ [](~Ended)
          /\ <>[](pc = "getAccountById" /\ outcome = NoOutcome /\ retries = MaxRetries + 1)
          /\ []<>calling
          /\ []<>(~calling)
    /\ [][AnswersNetworkError =>
            /\ pc = "getAccountById" /\ pc' = "getAccountById"
            /\ <<accountIds', pos', sum', account', outcome'>> = <<accountIds, pos, sum, account, NoOutcome>>
         ]_vars

\* on the way round the retry loop once more: the fetch of 'b' has failed more
\* than MaxRetries times in a row after the fetches before it did so too
C16_Witness ==
    /\ pc = "getAccountById"
    /\ ~calling
    /\ retries = MaxRetries + 1
    /\ accountIds = LoggingTestIds
    /\ pos = 3
    /\ Len(NetworkErrors) = 3 * MaxRetries

\* termination without a premise on the store: it does not hold, a store
\* that answers NetworkError for ever keeps the invocation in the loop
AlwaysEnds == InProgress ~> Ended

\* C17: an error thrown by logAccount is outside the retry loop: it leaves
\* sumAccounts at once, as the invocation's error, no call follows it (no
\* retry, no new fetch, no later id), also when its message is 'NetworkError'.
IsLoggerFailure(e) == IsLog(e) /\ ~IsSuccess(e)
C17_LoggerErrorPropagates ==
    \A k \in 1..Len(trace) :
        IsLoggerFailure(trace[k]) =>
            /\ k = Len(trace)
            /\ pc = "thrown"
            /\ outcome = Thrown("logAccount", trace[k].res)

C17_Witness ==
    /\ pc = "thrown"
    /\ accountIds = TestIds
    /\ pos = 2
    /\ outcome = Thrown("logAccount", "NetworkError")
    /\ IsLoggerFailure(trace[Len(trace)])

\* C18: sumAccounts keeps nothing from one invocation to the next: whatever
\* came before (nothing, a returned or a failed invocation), the running sum,
\* the logger calls and the outcome of an invocation are those of a run that
\* starts from sum = 0 on the same accountIds and the same answers of the
\* collaborators, so two invocations given the same inputs end alike.
Accumulated == Len(SelectSeq(Logs, IsSuccess))
FreshOutcome ==
    IF trace # <<>> /\ ~IsSuccess(trace[Len(trace)])
      THEN Thrown(trace[Len(trace)].op, trace[Len(trace)].res)
      ELSE Returned(SumOver(Positive, FetchedBalances))
C18_NothingKeptBetweenInvocations ==
    LET ids == <<"master">> \o accountIds
    IN  /\ Accumulated <= Len(FetchedBalances)
        /\ sum = SumOver(Positive, SubSeq(FetchedBalances, 1, Accumulated))
        /\ Len(Logs) <= Len(ids)
        /\ \A k \in 1..Len(Logs) : Logs[k].args = <<ids[k], "master">>
        /\ Ended => outcome = FreshOutcome

C18_Witness ==
    /\ calls = 2
    /\ previous = "throw"
    /\ pc = "returned"
    /\ accountIds = LoggingTestIds
    /\ FetchedBalances = <<0, 1, 1>>
    /\ outcome = Returned(2)

\* C19: sumAccounts only reads from its collaborators: within an invocation
\* the caller's accountIds stay as passed, the fetched account stays as the
\* store returned it, and the only collaborator operations called are
\* getAccountById and logAccount.
C19_OnlyReadsCollaborators ==
    /\ [](/\ \A k \in 1..Len(trace) : trace[k].op \in {"getAccountById", "logAccount"}
          /\ (pc = "logAccount" /\ Fetched # <<>>) =>
                account = Fetched[Len(Fetched)].account)
    /\ [][calls' = calls => accountIds' = accountIds]_vars

C19_Witness ==
    /\ pc = "returned"
    /\ accountIds = TestIds
    /\ Len(Gets) = 5
    /\ Len(Logs) = 4

\* C20: the running sum of an invocation is never negative and never
\* decreases from one processed id to the next, so a returned value is >= 0
\* whatever the balances in the store.
C20_SumNeverNegativeNorDecreasing ==
    /\ [](sum >= 0 /\ (pc = "returned" => outcome.value >= 0))
    /\ [][calls' = calls => sum' >= sum]_vars

C20_Witness ==
    /\ pc = "returned"
    /\ accountIds = LoggingTestIds
    /\ FetchedBalances = <<-1, 1, -1>>
    /\ outcome = Returned(1)

====
